---- MODULE Spec2Model ----
(***************************************************************************)
(* Declension engine of src/main.py: SubstitutionDictionary, Declension,   *)
(* NameDeclension and SurnameDeclension.                                   *)
(*                                                                         *)
(* A token (Python str) is a sequence of characters.  A character is a     *)
(* string naming one Cyrillic letter in Latin transliteration:             *)
(*   a e y i o u   = the vowels    а е и і о у                             *)
(*   ja ju ji je   = я ю ї є                                               *)
(*   j  soft  dot  = й  ь  "."                                             *)
(*   b v h g d zh z k l m n p r s t f kh c ch sh shch                      *)
(*                 = б в г ґ д ж з к л м н п р с т ф х ц ч ш щ             *)
(*   I O A M B P H = the capitals І О А М Б П Г                            *)
(***************************************************************************)
EXTENDS Integers, Sequences, FiniteSets, TLC

VARIABLES
    variant,                    \* "Name" (NameDeclension) or "Surname" (SurnameDeclension)
    lines,                      \* file.readlines() of the substitution list, each line already split into fields
    pc,                         \* "new": before fill_substitutions; "ready"; "crashed": an exception went uncaught
    dictionary,                 \* SubstitutionDictionary.dictionary
    replaced_set,               \* SubstitutionDictionary.replaced_set
    names_set_filtered,         \* Declension.names_set_filtered
    names_set_replaced,         \* Declension.names_set_replaced
    names_set_not_filtered,     \* Declension.names_set_not_filtered
    replaced_dictionary_cache,  \* Declension.replaced_dictionary_cache
    call,                       \* the last call of from_genitive_to_nominative_case: argument, outcome, path taken
    first,                      \* history: for every token ever passed, the outcome of its first call
    calls                       \* number of calls made so far

vars == <<variant, lines, pc, dictionary, replaced_set, names_set_filtered, names_set_replaced,
          names_set_not_filtered, replaced_dictionary_cache, call, first, calls>>

(***************************************************************************)
(* Bounds                                                                  *)
(***************************************************************************)
MaxCalls == 2      \* calls of from_genitive_to_nominative_case in one run
MaxLines == 2      \* lines of the substitution list
MaxLen == 4        \* length of the tokens enumerated exhaustively (WideSpec)

(***************************************************************************)
(* Python string primitives                                                *)
(***************************************************************************)
\* s[-n:]  (a slice never raises; it is shorter when the string is)
Last(s, n) == IF Len(s) <= n THEN s ELSE SubSeq(s, Len(s) - n + 1, Len(s))

\* s[-k]   (raises IndexError unless Len(s) >= k; callers test HasIndex first)
HasIndex(s, k) == Len(s) >= k
At(s, k) == s[Len(s) - k + 1]

\* s[::-1]
RECURSIVE Reverse(_)
Reverse(s) == IF s = <<>> THEN <<>> ELSE Append(Reverse(Tail(s)), Head(s))

\* s.replace(old, new, 1): the leftmost occurrence of old is replaced
RECURSIVE str_replace_1(_, _, _)
str_replace_1(s, old, new) ==
    IF Len(s) < Len(old) THEN s
    ELSE IF SubSeq(s, 1, Len(old)) = old THEN new \o SubSeq(s, Len(old) + 1, Len(s))
    ELSE <<Head(s)>> \o str_replace_1(Tail(s), old, new)

\* Declension.replace (static): reverse, replace the first occurrence, reverse back
replace_unreversed(string, removal, replacement) == str_replace_1(string, removal, replacement)
replace(string, removal, replacement) ==
    Reverse(str_replace_1(Reverse(string), Reverse(removal), Reverse(replacement)))

(***************************************************************************)
(* Rule sets                                                               *)
(***************************************************************************)
consonants_rule_u == {"b", "v", "d", "z", "n", "p", "r", "s", "t", "f", "ch", "kh", "sh", "c"}

consonants == {"b", "v", "h", "g", "d", "zh", "z", "k", "l", "m", "n", "p", "r", "s", "t", "f", "kh", "c",
               "ch", "sh", "shch", "soft"}

\* what replace_suffix returns: (is_matched, new_s), or an IndexError raised by in_str[-k];
\* removal and replacement record the arguments of the self.replace call that was made
Matched(in_str, removal, replacement) ==
    [raised |-> FALSE, is_matched |-> TRUE, new_s |-> replace(in_str, removal, replacement),
     removal |-> removal, replacement |-> replacement]
NotMatched(in_str) ==
    [raised |-> FALSE, is_matched |-> FALSE, new_s |-> in_str, removal |-> <<>>, replacement |-> <<>>]
IndexError(in_str) ==
    [raised |-> TRUE, is_matched |-> FALSE, new_s |-> in_str, removal |-> <<>>, replacement |-> <<>>]

Name_replace_suffix(in_str) ==
    LET suffix_1 == Last(in_str, 1)
        suffix_2 == Last(in_str, 2)
    IN  IF suffix_1 = <<"u">> THEN
            IF ~HasIndex(in_str, 2) THEN IndexError(in_str)
            ELSE LET let == At(in_str, 2) IN
                 IF let \in consonants_rule_u \/ let \in {"m", "n", "l", "k"}
                 THEN Matched(in_str, <<let, "u">>, <<let>>)
                 ELSE NotMatched(in_str)
        ELSE IF suffix_1 = <<"i">> THEN
            IF ~HasIndex(in_str, 2) THEN IndexError(in_str)
            ELSE LET let == At(in_str, 2) IN
                 IF let \in {"d", "m", "n", "sh", "t", "r"}
                 THEN Matched(in_str, <<let, "i">>, <<let, "a">>)
                 ELSE IF let = "c" THEN Matched(in_str, <<"c", "i">>, <<"k", "a">>)
                 ELSE NotMatched(in_str)
        ELSE IF suffix_1 = <<"ju">> THEN
            IF suffix_2 = <<"r", "ju">> THEN Matched(in_str, <<"r", "ju">>, <<"r", "soft">>)
            ELSE IF suffix_2 = <<"e", "ju">> THEN Matched(in_str, <<"e", "ju">>, <<"e", "j">>)
            ELSE IF suffix_2 = <<"i", "ju">> THEN Matched(in_str, <<"i", "ju">>, <<"i", "j">>)
            ELSE IF suffix_2 = <<"l", "ju">> THEN Matched(in_str, <<"l", "ju">>, <<"l", "soft">>)
            ELSE NotMatched(in_str)
        ELSE IF suffix_1 = <<"ji">> THEN
            IF suffix_2 = <<"i", "ji">> THEN Matched(in_str, <<"i", "ji">>, <<"i", "ja">>)
            ELSE IF suffix_2 = <<"e", "ji">> THEN Matched(in_str, <<"e", "ji">>, <<"e", "ja">>)
            ELSE NotMatched(in_str)
        ELSE NotMatched(in_str)

Name_check_exclusion_rules(in_str) ==
    LET suffix_1 == At(in_str, 1)
    IN  IF suffix_1 \in {"ja", "j", "a", "n", "p", "o", "s", "soft", "dot"} THEN TRUE
        ELSE IF Len(in_str) = 1 THEN TRUE
        ELSE FALSE

Name_check_to_filter_after_all(in_str) == FALSE

Surname_replace_suffix_omu_ij(in_str) ==
    LET suffix_1 == Last(in_str, 1)
        suffix_2 == Last(in_str, 2)
        suffix_3 == Last(in_str, 3)
    IN  IF suffix_2 = <<"i", "j">> THEN Matched(in_str, <<"i", "j">>, <<"a">>)
        ELSE IF suffix_3 = <<"o", "m", "u">> THEN
            IF ~HasIndex(in_str, 4) THEN IndexError(in_str)
            ELSE IF At(in_str, 4) = "soft"
                 THEN Matched(in_str, <<"soft", "o", "m", "u">>, <<"i", "j">>)
                 ELSE Matched(in_str, <<"o", "m", "u">>, <<"i", "j">>)
        ELSE IF suffix_2 = <<"k", "u">> THEN
            IF ~HasIndex(in_str, 3) THEN IndexError(in_str)
            ELSE LET let == At(in_str, 3) IN
                 IF let \in consonants \/ let = "j"
                 THEN Matched(in_str, <<"k", "u">>, <<"k", "o">>)
                 ELSE Matched(in_str, <<"k", "u">>, <<"k">>)
        ELSE IF suffix_1 = <<"u">> THEN
            IF ~HasIndex(in_str, 2) THEN IndexError(in_str)
            ELSE LET let == At(in_str, 2) IN
                 IF let \in consonants_rule_u
                 THEN Matched(in_str, <<let, "u">>, <<let>>)
                 ELSE NotMatched(in_str)
        ELSE IF suffix_1 = <<"ju">> THEN
            IF suffix_2 = <<"i", "ju">> THEN Matched(in_str, <<"i", "ju">>, <<"i", "j">>)
            ELSE IF suffix_2 = <<"a", "ju">> THEN Matched(in_str, <<"a", "ju">>, <<"a", "j">>)
            ELSE IF suffix_2 = <<"n", "ju">> THEN Matched(in_str, <<"n", "ju">>, <<"n", "soft">>)
            ELSE IF suffix_2 = <<"l", "ju">> THEN Matched(in_str, <<"l", "ju">>, <<"l", "soft">>)
            ELSE IF suffix_2 = <<"d", "ju">> THEN Matched(in_str, <<"d", "ju">>, <<"d", "soft">>)
            ELSE IF suffix_2 = <<"r", "ju">> THEN Matched(in_str, <<"r", "ju">>, <<"r">>)
            ELSE IF suffix_2 = <<"c", "ju">> THEN
                IF ~HasIndex(in_str, 3) THEN IndexError(in_str)
                ELSE LET let == At(in_str, 3) IN
                     IF let = "e" THEN Matched(in_str, <<"c", "ju">>, <<"c", "soft">>)
                     ELSE IF let = "j" THEN Matched(in_str, <<"j", "c", "ju">>, <<"je", "c", "soft">>)
                     ELSE Matched(in_str, <<"c", "ju">>, <<"e", "c", "soft">>)
            ELSE NotMatched(in_str)
        ELSE IF suffix_1 = <<"i">> THEN
            IF suffix_2 = <<"b", "i">> THEN Matched(in_str, <<"b", "i">>, <<"b", "a">>)
            ELSE IF suffix_2 = <<"d", "i">> THEN Matched(in_str, <<"d", "i">>, <<"d", "a">>)
            ELSE NotMatched(in_str)
        ELSE NotMatched(in_str)
Surname_replace_suffix(in_str) ==
    LET suffix_1 == Last(in_str, 1)
        suffix_2 == Last(in_str, 2)
        suffix_3 == Last(in_str, 3)
    IN  IF suffix_2 = <<"i", "j">> THEN Matched(in_str, <<"i", "j">>, <<"a">>)
        ELSE IF suffix_3 = <<"o", "m", "u">> THEN
            IF ~HasIndex(in_str, 4) THEN IndexError(in_str)
            ELSE IF At(in_str, 4) = "soft"
                 THEN Matched(in_str, <<"soft", "o", "m", "u">>, <<"i", "j">>)
                 ELSE Matched(in_str, <<"o", "m", "u">>, <<"y", "j">>)
        ELSE IF suffix_2 = <<"k", "u">> THEN
            IF ~HasIndex(in_str, 3) THEN IndexError(in_str)
            ELSE LET let == At(in_str, 3) IN
                 IF let \in consonants \/ let = "j"
                 THEN Matched(in_str, <<"k", "u">>, <<"k", "o">>)
                 ELSE Matched(in_str, <<"k", "u">>, <<"k">>)
        ELSE IF suffix_1 = <<"u">> THEN
            IF ~HasIndex(in_str, 2) THEN IndexError(in_str)
            ELSE LET let == At(in_str, 2) IN
                 IF let \in consonants_rule_u
                 THEN Matched(in_str, <<let, "u">>, <<let>>)
                 ELSE NotMatched(in_str)
        ELSE IF suffix_1 = <<"ju">> THEN
            IF suffix_2 = <<"i", "ju">> THEN Matched(in_str, <<"i", "ju">>, <<"i", "j">>)
            ELSE IF suffix_2 = <<"a", "ju">> THEN Matched(in_str, <<"a", "ju">>, <<"a", "j">>)
            ELSE IF suffix_2 = <<"n", "ju">> THEN Matched(in_str, <<"n", "ju">>, <<"n", "soft">>)
            ELSE IF suffix_2 = <<"l", "ju">> THEN Matched(in_str, <<"l", "ju">>, <<"l", "soft">>)
            ELSE IF suffix_2 = <<"d", "ju">> THEN Matched(in_str, <<"d", "ju">>, <<"d", "soft">>)
            ELSE IF suffix_2 = <<"r", "ju">> THEN Matched(in_str, <<"r", "ju">>, <<"r">>)
            ELSE IF suffix_2 = <<"c", "ju">> THEN
                IF ~HasIndex(in_str, 3) THEN IndexError(in_str)
                ELSE LET let == At(in_str, 3) IN
                     IF let = "e" THEN Matched(in_str, <<"c", "ju">>, <<"c", "soft">>)
                     ELSE IF let = "j" THEN Matched(in_str, <<"j", "c", "ju">>, <<"je", "c", "soft">>)
                     ELSE Matched(in_str, <<"c", "ju">>, <<"e", "c", "soft">>)
            ELSE NotMatched(in_str)
        ELSE IF suffix_1 = <<"i">> THEN
            IF suffix_2 = <<"b", "i">> THEN Matched(in_str, <<"b", "i">>, <<"b", "a">>)
            ELSE IF suffix_2 = <<"d", "i">> THEN Matched(in_str, <<"d", "i">>, <<"d", "a">>)
            ELSE NotMatched(in_str)
        ELSE NotMatched(in_str)

Surname_check_exclusion_rules_rule_u(in_str) ==
    LET suffix_1 == At(in_str, 1)
        suffix_2 == Last(in_str, 2)
    IN  IF suffix_1 \in consonants_rule_u \/ suffix_1 \in {"o"} \/ suffix_2 \in {<<"k", "o">>} THEN TRUE
        ELSE FALSE
Surname_check_exclusion_rules(in_str) ==
    LET suffix_1 == At(in_str, 1)
        suffix_2 == Last(in_str, 2)
    IN  IF suffix_1 \in consonants \/ suffix_1 \in {"o"} \/ suffix_2 \in {<<"k", "o">>} THEN TRUE
        ELSE FALSE

Surname_check_to_filter_after_all(in_str) ==
    LET suffix_1 == At(in_str, 1)
    IN  IF suffix_1 = "j" THEN TRUE ELSE FALSE

\* dispatch on the concrete class (the abstract methods of Declension)
replace_suffix(v, in_str) ==
    IF v = "Name" THEN Name_replace_suffix(in_str) ELSE Surname_replace_suffix(in_str)
check_exclusion_rules(v, in_str) ==
    IF v = "Name" THEN Name_check_exclusion_rules(in_str) ELSE Surname_check_exclusion_rules(in_str)
check_to_filter_after_all(v, in_str) ==
    IF v = "Name" THEN Name_check_to_filter_after_all(in_str) ELSE Surname_check_to_filter_after_all(in_str)

(***************************************************************************)
(* Tokens and substitution lists of the runs                               *)
(***************************************************************************)
Ivanenkom == <<"I", "v", "a", "n", "e", "n", "k", "o", "m">>
Petrenku == <<"P", "e", "t", "r", "e", "n", "k", "u">>
Melnychij == <<"M", "e", "l", "soft", "n", "y", "ch", "i", "j">>
Ivanu == <<"I", "v", "a", "n", "u">>
Ivan == <<"I", "v", "a", "n">>
Oleksiju == <<"O", "l", "e", "k", "s", "i", "ju">>
Oleksij == <<"O", "l", "e", "k", "s", "i", "j">>
Andrija == <<"A", "n", "d", "r", "i", "ja">>
Andrij == <<"A", "n", "d", "r", "i", "j">>
Hrycko == <<"H", "r", "y", "c", "soft", "k", "o">>
Synomu == <<"s", "y", "n", "soft", "o", "m", "u">>
Bilyj == <<"B", "i", "l", "y", "j">>
Mariji == <<"M", "a", "r", "i", "ji">>
Kuku == <<"k", "u", "k", "u">>

\* the tokens passed to an engine in the runs of Spec
Tokens ==
    { <<"u">>, <<"k", "u">>, <<"o", "m", "u">>,
      Ivanenkom, Melnychij, Ivanu, Ivan, Andrija, Hrycko, Synomu, Bilyj, Kuku }

\* further tokens, passed in the exhaustive runs only
Examples == { <<"c", "ju">>, Petrenku, Oleksiju, Mariji }

\* the lines a substitution list is made of, as line.strip().split() yields them
Lines ==
    { <<>>,                             \* a blank line
      <<Hrycko>>,                       \* one word
      <<Ivanu, Ivan>>,                  \* two words
      <<Andrija, Andrij>>,
      <<Ivanu, Oleksij, Andrij>> }      \* three words, and the key of another line

RECURSIVE SeqsUpTo(_, _)
SeqsUpTo(S, n) ==
    IF n = 0 THEN {<<>>}
    ELSE LET shorter == SeqsUpTo(S, n - 1)
         IN  shorter \cup {Append(q, x) : q \in shorter, x \in S}

Files == SeqsUpTo(Lines, MaxLines)

(***************************************************************************)
(* SubstitutionDictionary                                                  *)
(***************************************************************************)
Put(d, k, v) == [x \in (DOMAIN d) \cup {k} |-> IF x = k THEN v ELSE d[x]]

\* the loop of fill_substitutions over data, from dictionary d on;
\* pair[0] / pair[1] raise IndexError on a line without fields
RECURSIVE fill_lines(_, _)
fill_lines(d, data) ==
    IF data = <<>> THEN [raised |-> FALSE, dictionary |-> d]
    ELSE LET line == Head(data)
             pair == IF Len(line) = 1 THEN Append(line, line[1]) ELSE line
         IN  IF Len(pair) < 2 THEN [raised |-> TRUE, dictionary |-> d]
             ELSE fill_lines(Put(d, pair[1], pair[2]), Tail(data))

\* SubstitutionDictionary.replace: (replaced, new_string) and the replaced_set it leaves
SubstitutionDictionary_replace(string) ==
    IF string \in DOMAIN dictionary
    THEN [replaced |-> TRUE, new_string |-> dictionary[string],
          replaced_set |-> replaced_set \cup {dictionary[string]}]
    ELSE [replaced |-> FALSE, new_string |-> string, replaced_set |-> replaced_set]

(***************************************************************************)
(* Declension.from_genitive_to_nominative_case                             *)
(* Each branch yields the value returned and the engine state it leaves.   *)
(***************************************************************************)
Returns(in_str, new_str, path) ==
    [raised |-> FALSE, in_str |-> in_str, new_str |-> new_str, path |-> path,
     cache |-> replaced_dictionary_cache, replaced_set |-> replaced_set,
     filtered |-> names_set_filtered, replaced |-> names_set_replaced,
     not_filtered |-> names_set_not_filtered]

\* 1. already cached
cached_branch(in_str) ==
    Returns(in_str, replaced_dictionary_cache[in_str], "cache")

\* 2. dictionary predefined exclusion; r is what substitution_dictionary.replace returned
dictionary_branch_bucket(in_str, r) ==
    [Returns(in_str, r.new_string, "dict") EXCEPT
        !.replaced_set = r.replaced_set,
        !.replaced = @ \cup {r.new_string},
        !.cache = Put(@, in_str, r.new_string)]
dictionary_branch_cache_in_str(in_str, r) ==
    [Returns(in_str, r.new_string, "dict") EXCEPT
        !.replaced_set = r.replaced_set,
        !.cache = Put(@, in_str, in_str)]
dictionary_branch(in_str, r) ==
    [Returns(in_str, r.new_string, "dict") EXCEPT
        !.replaced_set = r.replaced_set,
        !.cache = Put(@, in_str, r.new_string)]

\* 3.1 rule exclusions
exclusion_branch_unrecorded(in_str) ==
    [Returns(in_str, in_str, "exclusion") EXCEPT
        !.cache = Put(@, in_str, in_str)]
exclusion_branch(in_str) ==
    [Returns(in_str, in_str, "exclusion") EXCEPT
        !.filtered = @ \cup {in_str},
        !.cache = Put(@, in_str, in_str)]

\* 3.2 replacement based on algorithm; s is what replace_suffix returned, with s.is_matched
suffix_branch_cache_in_str(in_str, s) ==
    [Returns(in_str, s.new_s, "rule") EXCEPT
        !.replaced = @ \cup {s.new_s},
        !.cache = Put(@, in_str, in_str)]
suffix_branch(in_str, s) ==
    [Returns(in_str, s.new_s, "rule") EXCEPT
        !.replaced = @ \cup {s.new_s},
        !.cache = Put(@, in_str, s.new_s)]

\* 3.3 filter after all replacements
unmatched_branch_cached(in_str) ==
    IF check_to_filter_after_all(variant, in_str)
    THEN [Returns(in_str, in_str, "after_all") EXCEPT
            !.filtered = @ \cup {in_str}, !.cache = Put(@, in_str, in_str)]
    ELSE [Returns(in_str, in_str, "unresolved") EXCEPT
            !.not_filtered = @ \cup {in_str}, !.cache = Put(@, in_str, in_str)]
unmatched_branch(in_str) ==
    IF check_to_filter_after_all(variant, in_str)
    THEN [Returns(in_str, in_str, "after_all") EXCEPT !.filtered = @ \cup {in_str}]
    ELSE [Returns(in_str, in_str, "unresolved") EXCEPT !.not_filtered = @ \cup {in_str}]

\* an IndexError leaves the function before anything was recorded
Raises(in_str) == [Returns(in_str, in_str, "raise") EXCEPT !.raised = TRUE]

\* the else branch of "replaced" (3.1 - 3.3)
rules_chain_suffix_first(in_str) ==
    LET s == replace_suffix(variant, in_str)
    IN  IF s.raised THEN Raises(in_str)
        ELSE IF s.is_matched THEN suffix_branch(in_str, s)
        ELSE IF check_exclusion_rules(variant, in_str) THEN exclusion_branch(in_str)
        ELSE unmatched_branch(in_str)
rules_chain(in_str) ==
    IF check_exclusion_rules(variant, in_str) THEN exclusion_branch(in_str)
    ELSE LET s == replace_suffix(variant, in_str)
         IN  IF s.raised THEN Raises(in_str)
             ELSE IF s.is_matched THEN suffix_branch(in_str, s)
             ELSE unmatched_branch(in_str)

\* the whole body: what the call returns and the state it leaves
outcome_rules_before_dictionary(in_str) ==
    IF in_str \in DOMAIN replaced_dictionary_cache THEN cached_branch(in_str)
    ELSE IF check_exclusion_rules(variant, in_str) THEN exclusion_branch(in_str)
    ELSE LET r == SubstitutionDictionary_replace(in_str)
         IN  IF r.replaced THEN dictionary_branch(in_str, r)
             ELSE rules_chain(in_str)
outcome(in_str) ==
    IF in_str \in DOMAIN replaced_dictionary_cache THEN cached_branch(in_str)
    ELSE LET r == SubstitutionDictionary_replace(in_str)
         IN  IF r.replaced THEN dictionary_branch(in_str, r)
             ELSE rules_chain(in_str)

NoCall == [in_str |-> <<>>, new_str |-> <<>>, path |-> "none", raised |-> FALSE]

(***************************************************************************)
(* Actions                                                                 *)
(***************************************************************************)
\* one engine (NameDeclension or SurnameDeclension) with all sets and the cache empty,
\* about to read its substitution list
Init ==
    /\ variant \in {"Name", "Surname"}
    /\ lines \in Files
    /\ pc = "new"
    /\ dictionary = <<>>
    /\ replaced_set = {}
    /\ names_set_filtered = {}
    /\ names_set_replaced = {}
    /\ names_set_not_filtered = {}
    /\ replaced_dictionary_cache = <<>>
    /\ call = NoCall
    /\ first = <<>>
    /\ calls = 0

fill_substitutions ==
    /\ pc = "new"
    /\ LET r == fill_lines(dictionary, lines)
       IN  /\ dictionary' = r.dictionary
           /\ pc' = IF r.raised THEN "crashed" ELSE "ready"
    /\ UNCHANGED <<variant, lines, replaced_set, names_set_filtered, names_set_replaced,
                   names_set_not_filtered, replaced_dictionary_cache, call, first, calls>>

from_genitive_to_nominative_case(in_str) ==
    /\ pc = "ready"
    /\ LET o == outcome(in_str)
       IN  /\ replaced_dictionary_cache' = o.cache
           /\ replaced_set' = o.replaced_set
           /\ names_set_filtered' = o.filtered
           /\ names_set_replaced' = o.replaced
           /\ names_set_not_filtered' = o.not_filtered
           /\ pc' = IF o.raised THEN "crashed" ELSE "ready"
           /\ call' = [in_str |-> in_str, new_str |-> o.new_str, path |-> o.path, raised |-> o.raised]
           /\ first' = IF in_str \in DOMAIN first THEN first
                       ELSE Put(first, in_str, [new_str |-> o.new_str, path |-> o.path])
    /\ calls' = calls + 1
    /\ UNCHANGED <<variant, lines, dictionary>>

normalize ==
    /\ calls < MaxCalls
    /\ \E in_str \in Tokens : from_genitive_to_nominative_case(in_str)

Next == fill_substitutions \/ normalize

Spec == Init /\ [][Next]_vars

(***************************************************************************)
(* Exhaustive runs of the rule sets: a freshly constructed engine whose    *)
(* substitution list is absent or empty, one call on any short token, and  *)
(* a second call on what the first returned                                *)
(***************************************************************************)
Alphabet == {"u", "k", "o", "m", "soft", "c", "ju", "j", "i", "e"}

\* the suffixes the two rule tables rewrite
Endings ==
    { <<"n", "u">>, <<"l", "u">>, <<"d", "i">>, <<"sh", "i">>, <<"c", "i">>,
      <<"r", "ju">>, <<"e", "ju">>, <<"i", "ju">>, <<"l", "ju">>, <<"i", "ji">>, <<"e", "ji">>,
      <<"i", "j">>, <<"soft", "o", "m", "u">>, <<"o", "m", "u">>, <<"k", "u">>,
      <<"a", "ju">>, <<"n", "ju">>, <<"d", "ju">>, <<"j", "c", "ju">>, <<"c", "ju">>, <<"b", "i">> }

\* tokens in which the suffix occurs a second time, further to the left
Recurring == {e \o e : e \in Endings} \cup {e \o <<"a">> \o e : e \in Endings}

\* the rules look at the last SuffixContext characters at most (in_str[-4])
SuffixContext == 4

\* one more character in front of every ending of SuffixContext characters
Prefixed == {<<"I">> \o q : q \in {e \in SeqsUpTo(Alphabet, SuffixContext) : Len(e) = SuffixContext}}

WideTokens ==
    (SeqsUpTo(Alphabet, MaxLen) \ {<<>>}) \cup Prefixed \cup Recurring \cup Tokens \cup Examples

InitWide ==
    /\ variant \in {"Name", "Surname"}
    /\ lines = <<>>
    /\ pc = "ready"
    /\ dictionary = <<>>
    /\ replaced_set = {}
    /\ names_set_filtered = {}
    /\ names_set_replaced = {}
    /\ names_set_not_filtered = {}
    /\ replaced_dictionary_cache = <<>>
    /\ call = NoCall
    /\ first = <<>>
    /\ calls = 0

normalize_wide ==
    /\ calls < 1
    /\ \E in_str \in WideTokens : from_genitive_to_nominative_case(in_str)

\* the caller passes the value a first call returned to the same engine again
normalize_again ==
    /\ calls = 1
    /\ from_genitive_to_nominative_case(call.new_str)

NextWide == normalize_wide \/ normalize_again

WideSpec == InitWide /\ [][NextWide]_vars

(***************************************************************************)
(* Properties                                                              *)
(***************************************************************************)
Called == call.path # "none"
Buckets == <<names_set_filtered, names_set_replaced, names_set_not_filtered>>

\* C1: normalize is total: every call, on either engine, in any state, for any
\* non-empty token, returns a token and never raises.
C1_NormalizeTotal ==
    Called => ~call.raised /\ Len(call.new_str) > 0

\* C2: dictionary precedence: whatever was called before, a call on a key of the
\* substitution dictionary returns the dictionary's value for it.
C2_DictionaryPrecedence ==
    (Called /\ call.in_str \in DOMAIN dictionary)
        => (~call.raised /\ call.new_str = dictionary[call.in_str])

\* a second call, on a dictionary key that the exclusion predicate holds of and
\* that the dictionary maps to another token
C2_Witness ==
    /\ calls >= 2
    /\ call.in_str \in DOMAIN dictionary
    /\ first[call.in_str].path = "dict"
    /\ call.path = "cache"
    /\ check_exclusion_rules(variant, call.in_str)
    /\ call.new_str # call.in_str

\* C3: cache consistency: once a token was handled by the dictionary, exclusion or
\* suffix-rule path, every later call on it returns what the first call returned
\* and changes neither a bucket, nor the dictionary's replaced_set, nor the cache.
C3_CacheConsistency ==
    [][(calls' = calls + 1
          /\ call'.in_str \in DOMAIN first
          /\ first[call'.in_str].path \in {"dict", "exclusion", "rule"})
        => (/\ ~call'.raised
            /\ call'.new_str = first[call'.in_str].new_str
            /\ UNCHANGED <<names_set_filtered, names_set_replaced, names_set_not_filtered,
                           replaced_set, replaced_dictionary_cache>>)]_vars

\* a repeated call on a token that a suffix rule rewrote
C3_Witness ==
    /\ calls >= 2
    /\ call.path = "cache"
    /\ first[call.in_str].path = "rule"
    /\ call.new_str # call.in_str
    /\ call.new_str = first[call.in_str].new_str

\* the tokens passed to a call that returned
Returned == {t \in DOMAIN first : first[t].path # "raise"}

BucketsOf(t) ==
    {b \in {"filtered", "replaced", "not_filtered"} :
        \/ b = "filtered" /\ t \in names_set_filtered
        \/ b = "replaced" /\ t \in names_set_replaced
        \/ b = "not_filtered" /\ t \in names_set_not_filtered}

\* C4 as stated: every token passed to normalize that is no dictionary key is a
\* member of exactly one of the three buckets.
C4_ExactlyOneBucket ==
    \A t \in Returned : t \notin DOMAIN dictionary => Cardinality(BucketsOf(t)) = 1

\* C4 amended: a token passed to normalize that is no dictionary key is recorded in
\* exactly one way: itself in names_set_filtered, or itself in names_set_not_filtered,
\* or, when a suffix rule rewrote it, its result in names_set_replaced; a call that
\* raised recorded nothing.
C4_RecordedOnce ==
    \A t \in DOMAIN first : t \notin DOMAIN dictionary =>
        LET p == first[t].path
        IN  /\ p \in {"exclusion", "rule", "after_all", "unresolved", "raise"}
            /\ (t \in names_set_filtered) <=> (p \in {"exclusion", "after_all"})
            /\ (t \in names_set_not_filtered) <=> (p = "unresolved")
            /\ (p = "rule") => (first[t].new_str \in names_set_replaced /\ first[t].new_str # t)

\* a token in two buckets (excluded itself and the result of a rule) next to a token
\* in none (rewritten by the rule)
C4_Witness ==
    /\ \E t \in Returned : t \notin DOMAIN dictionary /\ Cardinality(BucketsOf(t)) = 2
    /\ \E t \in Returned : t \notin DOMAIN dictionary /\ Cardinality(BucketsOf(t)) = 0

\* C5: suffix anchoring: when a suffix rule fires with suffix S of length k and
\* replacement R, S is the end of the token and the result is the token without
\* its last k characters followed by R.
C5_SuffixAnchored ==
    (Called /\ call.path = "rule") =>
        LET s == replace_suffix(variant, call.in_str)
            t == call.in_str
            k == Len(s.removal)
        IN  /\ k >= 1 /\ k <= Len(t)
            /\ Last(t, k) = s.removal
            /\ call.new_str = SubSeq(t, 1, Len(t) - k) \o s.replacement

\* a rule fired on a token in which the suffix also occurs further to the left
C5_Witness ==
    /\ call.path = "rule"
    /\ LET s == replace_suffix(variant, call.in_str)
           t == call.in_str
           k == Len(s.removal)
       IN  /\ \E i \in 1..(Len(t) - k) : SubSeq(t, i, i + k - 1) = s.removal
           /\ call.new_str = SubSeq(t, 1, Len(t) - k) \o s.replacement

\* C6 as stated: on a Surname engine whose dictionary lacks it, Ivanenkom is returned
\* unchanged and is unresolved: in names_set_not_filtered and in no other bucket.
C6_IvanenkomUnresolved ==
    (Called /\ variant = "Surname" /\ call.in_str = Ivanenkom /\ Ivanenkom \notin DOMAIN dictionary)
        => (/\ call.new_str = Ivanenkom
            /\ Ivanenkom \in names_set_not_filtered
            /\ Ivanenkom \notin names_set_filtered
            /\ Ivanenkom \notin names_set_replaced)

\* C6 amended: on a Surname engine whose dictionary lacks it, Ivanenkom is returned
\* unchanged and is an exclusion: in names_set_filtered, cached to itself, and in
\* neither names_set_not_filtered nor names_set_replaced.
C6_IvanenkomExcluded ==
    (Called /\ variant = "Surname" /\ call.in_str = Ivanenkom /\ Ivanenkom \notin DOMAIN dictionary)
        => (/\ ~call.raised
            /\ call.new_str = Ivanenkom
            /\ Ivanenkom \in names_set_filtered
            /\ Ivanenkom \in DOMAIN replaced_dictionary_cache
            /\ replaced_dictionary_cache[Ivanenkom] = Ivanenkom
            /\ Ivanenkom \notin names_set_not_filtered
            /\ Ivanenkom \notin names_set_replaced)

C6_Witness ==
    /\ variant = "Surname"
    /\ call.in_str = Ivanenkom
    /\ call.path = "exclusion"
    /\ Ivanenkom \in names_set_filtered

\* C7 as stated: in any engine state a token the exclusion predicate holds of is a
\* fixed point of normalize.
C7_ExcludedFixedPoint ==
    (Called /\ check_exclusion_rules(variant, call.in_str))
        => (~call.raised /\ call.new_str = call.in_str)

\* C7 amended: in any engine state a token the exclusion predicate holds of and
\* that is no key of the substitution dictionary is a fixed point of normalize
\* (so normalizing the result again returns it again).
C7_ExcludedNonKeyFixedPoint ==
    (Called /\ check_exclusion_rules(variant, call.in_str) /\ call.in_str \notin DOMAIN dictionary)
        => (~call.raised /\ call.new_str = call.in_str)

\* normalize applied to the result of normalize on an excluded token
C7_Witness ==
    /\ calls >= 2
    /\ check_exclusion_rules(variant, call.in_str)
    /\ call.in_str \notin DOMAIN dictionary
    /\ first[call.in_str].path = "exclusion"
    /\ call.path = "cache"
    /\ call.new_str = call.in_str

\* C8 as stated: a call answered by the substitution dictionary adds the token and
\* its mapped value to the cache and no set of tokens gains a member.
C8_DictionaryHitNoSet ==
    [][(calls' = calls + 1 /\ call'.path = "dict")
        => (/\ replaced_dictionary_cache' =
                   Put(replaced_dictionary_cache, call'.in_str, dictionary[call'.in_str])
            /\ UNCHANGED <<names_set_filtered, names_set_replaced, names_set_not_filtered,
                           replaced_set>>)]_vars

\* C8 amended: a call answered by the substitution dictionary adds the token and its
\* mapped value to the cache and leaves the three classification sets of the engine
\* unchanged; the dictionary's replaced_set gains the mapped value and nothing else.
C8_DictionaryHitNoBucket ==
    [][(calls' = calls + 1 /\ call'.path = "dict")
        => (/\ replaced_dictionary_cache' =
                   Put(replaced_dictionary_cache, call'.in_str, dictionary[call'.in_str])
            /\ call'.new_str = dictionary[call'.in_str]
            /\ UNCHANGED <<names_set_filtered, names_set_replaced, names_set_not_filtered>>
            /\ replaced_set' = replaced_set \cup {dictionary[call'.in_str]})]_vars

\* the self-mapped entry answered by the dictionary
C8_Witness ==
    /\ calls = 1
    /\ call.path = "dict"
    /\ call.in_str = Hrycko
    /\ call.new_str = Hrycko
    /\ replaced_set = {Hrycko}
    /\ Buckets = <<{}, {}, {}>>
    /\ replaced_dictionary_cache = Put(<<>>, Hrycko, Hrycko)

\* what the claim expects of a list of lines: the last line that starts with a word
\* decides what the word maps to
ExpectedDictionary(data) ==
    LET keyed == {i \in 1..Len(data) : Len(data[i]) >= 1}
        keys == {data[i][1] : i \in keyed}
        last(k) == CHOOSE i \in keyed : data[i][1] = k /\ \A j \in keyed : data[j][1] = k => j <= i
    IN  [k \in keys |-> IF Len(data[last(k)]) = 1 THEN k ELSE data[last(k)][2]]

LoadRaised == pc = "crashed" /\ calls = 0

\* C9: fill_substitutions never raises, whatever the number of fields of each line,
\* and yields the dictionary of the lines, the last occurrence of a key winning.
C9_LoadNeverFails ==
    (pc # "new") => (~LoadRaised /\ dictionary = ExpectedDictionary(lines))

\* C10: a call that ends in the filtered-after-all or the unresolved path returns the
\* token unchanged, leaves the cache unchanged and the token no cache key; a call on
\* a token that ended there before ends in the same path again and leaves the
\* buckets as they were.
C10_UncachedOutcomes ==
    [][(calls' = calls + 1) =>
        LET t == call'.in_str
        IN  /\ (call'.path \in {"after_all", "unresolved"}) =>
                  (/\ call'.new_str = t
                   /\ UNCHANGED replaced_dictionary_cache
                   /\ t \notin DOMAIN replaced_dictionary_cache')
            /\ (t \in DOMAIN first /\ first[t].path \in {"after_all", "unresolved"}) =>
                  (/\ call'.path = first[t].path
                   /\ t \notin DOMAIN replaced_dictionary_cache
                   /\ UNCHANGED <<names_set_filtered, names_set_replaced, names_set_not_filtered,
                                  replaced_set>>)]_vars

\* the same token called twice, filtered after all both times
C10_Witness ==
    /\ calls = 2
    /\ call.path = "after_all"
    /\ DOMAIN first = {call.in_str}
    /\ first[call.in_str].path = "after_all"
    /\ names_set_filtered = {call.in_str}
    /\ replaced_dictionary_cache = <<>>

ProducedIj ==
    /\ variant = "Surname"
    /\ call.path = "rule"
    /\ replace_suffix(variant, call.in_str).removal \in {<<"soft", "o", "m", "u">>, <<"i", "ju">>}

fresh_engine(in_str) ==
    IF in_str \in DOMAIN dictionary
    THEN [raised |-> FALSE, new_str |-> dictionary[in_str]]
    ELSE IF check_exclusion_rules(variant, in_str)
    THEN [raised |-> FALSE, new_str |-> in_str]
    ELSE LET s == replace_suffix(variant, in_str)
         IN  [raised |-> s.raised, new_str |-> s.new_s]

\* C12: the cache is transparent: whatever was called before, a call returns (or
\* raises) what a freshly constructed engine with the same dictionary returns for
\* the token; every cache entry holds that value, and no entry is ever overwritten
\* or removed.
C12_CacheTransparent ==
    [][(calls' = calls + 1) =>
        (/\ call'.raised = fresh_engine(call'.in_str).raised
         /\ call'.new_str = fresh_engine(call'.in_str).new_str
         /\ \A t \in DOMAIN replaced_dictionary_cache' :
               replaced_dictionary_cache'[t] = fresh_engine(t).new_str
         /\ \A t \in DOMAIN replaced_dictionary_cache :
               /\ t \in DOMAIN replaced_dictionary_cache'
               /\ replaced_dictionary_cache'[t] = replaced_dictionary_cache[t])]_vars

\* a second call on a token, answered from the cache with the value a fresh engine
\* computes for it, the cache holding that one entry
C12_Witness ==
    /\ calls = 2
    /\ call.path = "cache"
    /\ ~fresh_engine(call.in_str).raised
    /\ call.new_str = fresh_engine(call.in_str).new_str
    /\ call.new_str # call.in_str
    /\ DOMAIN replaced_dictionary_cache = {call.in_str}
    /\ replaced_dictionary_cache[call.in_str] = call.new_str

====
